---------------------------- MODULE Spec2Model ----------------------------
(***************************************************************************)
(* Code RAG (aihelper-rag): the web client's indexing and question-        *)
(* answering flows, together with the server they talk to.                 *)
(*                                                                         *)
(* The client (React hooks, contexts and pages) is translated from the     *)
(* JavaScript sources.  The Python back end (api.py, indexer.py,           *)
(* project_manager.py, generator.py) is modelled from the written          *)
(* specification and the protocol description of the technical document.   *)
(*                                                                         *)
(* The specifications share the variables:                                 *)
(*   SpecIndex      project registry, indexing jobs, TrainingPage          *)
(*   SpecDelete     the same with deleteProject, two projects              *)
(*   SpecChat       useStreamingChat and the /ask/stream event stream      *)
(*   SpecChatFair   the same, with the fairness of the browser's loop      *)
(*   SpecChatLines  the same, over a network that hands over whole lines   *)
(*   SpecAsk        one index request and one question side by side        *)
(*   SpecRerank     the Reranker on a candidate batch                      *)
(*   SpecConv       ChatProvider's conversations, one question             *)
(*   SpecSend       two questions in one conversation                      *)
(*   SpecMessages   addMessage on stored conversations                     *)
(*   SpecAgent      useAgentChat and its event stream                      *)
(***************************************************************************)
EXTENDS Integers, Sequences, FiniteSets, TLC

(***************************************************************************)
(* Bounds of the model.                                                    *)
(***************************************************************************)
NProj == 2        \* project ids 1..NProj
NFiles == 2       \* files found by one scan of a source directory
MaxIdxReq == 2    \* startIndexing invocations in one run
MaxWire == 3      \* the server writes an event while fewer symbols are in flight
MaxAsk == 2       \* sendMessage invocations in one run
MaxDeltas == 2    \* content deltas the LLM produces for one answer
MaxCand == 3      \* candidates the Retriever hands to the Reranker (top_k)
MaxScore == 2     \* vector and BM25 scores are 0..MaxScore
TopN == 2         \* rerank_top_n
MaxRerank == 2    \* reranks of one candidate batch

ProjIds == 1..NProj
NoProj == 0
Files == 1..NFiles
IdxReqs == 1..MaxIdxReq
Asks == 1..MaxAsk

(***************************************************************************)
(* The wire format of both event streams: one "data: <json>\n" line per    *)
(* event.  A line is modelled by two symbols, so that a network chunk can  *)
(* end inside a line:                                                      *)
(*   head  "data: " followed by the first part of the JSON text            *)
(*   tail  the rest of the JSON text, and the line feed                    *)
(* raw is a body byte of a response that is no event stream.               *)
(***************************************************************************)
Ev(t, d) == [type |-> t, data |-> d]
NoEv == Ev("none", 0)
DataHead(e) == [k |-> "head", e |-> e]
DataTail(e) == [k |-> "tail", e |-> e]
Raw == [k |-> "raw", e |-> NoEv]
Frame(e) == <<DataHead(e), DataTail(e)>>

\* chunk.split('\n'): a line ends with the symbol that holds the line feed;
\* what follows the last line feed is the last element.
RECURSIVE SplitFrom(_, _, _)
SplitFrom(s, i, cur) ==
  IF i > Len(s) THEN <<cur>>
  ELSE IF s[i].k = "tail"
    THEN <<Append(cur, s[i])>> \o SplitFrom(s, i + 1, <<>>)
  ELSE SplitFrom(s, i + 1, Append(cur, s[i]))

SplitLines(chunk) == SplitFrom(chunk, 1, <<>>)

\* line.startsWith('data: ') and JSON.parse(line.slice(6)) does not throw:
\* the text after the prefix is one whole JSON value.
LineParses(line) ==
  /\ Len(line) = 2
  /\ line[1].k = "head"
  /\ line[2] = DataTail(line[1].e)

RECURSIVE EventsOfLines(_)
EventsOfLines(lines) ==
  IF lines = <<>> THEN <<>>
  ELSE (IF LineParses(Head(lines)) THEN <<Head(lines)[1].e>> ELSE <<>>)
         \o EventsOfLines(Tail(lines))

\* The events one read of the stream hands to the dispatch: the lines of
\* this chunk alone; nothing is carried over to the next chunk.
ParseChunk(chunk) == EventsOfLines(SplitLines(chunk))

Prefix(s, n) == SubSeq(s, 1, n)
Suffix(s, n) == SubSeq(s, n + 1, Len(s))

VARIABLES
  \* ---- server (modelled from the specification)
  srvProj,            \* project registry: id -> [exists, status, file_count]
  collection,         \* vector store: id -> set of chunks <<file, generation>>
  \* ---- ProjectProvider
  projects,           \* id -> [inList, status, file_count]
  selectedProjectId,
  loads,              \* loadProjects calls awaiting projectApi.list()
  \* ---- TrainingPage
  indexingProjectId,
  indexProgress,
  ix,                 \* startIndexing invocations and their server jobs
  nIx,
  dels,               \* deleteProject calls awaiting projectApi.delete()
  \* ---- useStreamingChat
  isStreaming,
  streamingContent,
  streamingSources,
  chatError,
  abortCur,           \* abortControllerRef.current
  aborted,            \* controllers whose signal is aborted
  ask,                \* sendMessage invocations and their server streams
  nAsk,
  \* ---- Reranker (modelled from the specification)
  candidates,         \* the batch of the Retriever, in retrieval order
  reranked,           \* the results of the reranks of that batch
  \* ---- ChatProvider and ChatMainArea.handleSend
  conversationsByProject,   \* project id -> list of [id, messages]
  currentConversationId,
  now,                \* the reading of Date.now()
  onComplete,         \* the callback each sendMessage was called with
  \* ---- useAgentChat
  isRunning,
  steps,
  currentStep,
  finalAnswer,
  agentError,
  agentAborted,       \* runs whose AbortController was aborted
  run,                \* runAgent invocations and their server streams
  nRun

idxVars == <<srvProj, collection, projects, selectedProjectId, loads,
             indexingProjectId, indexProgress, ix, nIx, dels>>
chatVars == <<isStreaming, streamingContent, streamingSources, chatError,
              abortCur, aborted, ask, nAsk>>
rrVars == <<candidates, reranked>>
convVars == <<conversationsByProject, currentConversationId, now, onComplete>>
agentVars == <<isRunning, steps, currentStep, finalAnswer, agentError,
               agentAborted, run, nRun>>
vars == <<idxVars, chatVars, rrVars, convVars, agentVars>>


(***************************************************************************)
(* Values.                                                                 *)
(***************************************************************************)
NoProject == [exists |-> FALSE, status |-> "idle", file_count |-> 0]
NotListed == [inList |-> FALSE, status |-> "idle", file_count |-> 0]

\* One startIndexing invocation: the client's position (cpc), the response
\* stream (wire, closed, conn) and the server's job for it (srv, cur, acc,
\* term; log: the events it has emitted).  lastSet and fcSet record what
\* this invocation's event handler last wrote into the project list.
IxUnused ==
  [proj |-> NoProj, cpc |-> "unused", selCap |-> NoProj,
   wire |-> <<>>, closed |-> FALSE, conn |-> FALSE,
   srv |-> "none", cur |-> 0, acc |-> {}, term |-> "none",
   lastSet |-> "none", fcSet |-> 0, log |-> <<>>]

\* The chunk set a project starts with (an index built before this run).
InitialChunks == {<<f, 0>> : f \in Files}

(***************************************************************************)
(* Server: Project Manager, Indexer, Vector Store.                         *)
(***************************************************************************)
\* The per-project indexing mutex: a job may start only when no other job
\* of the same project is running.
SrvMayStartAlways(r) == TRUE

SrvMayStartUnlessFailed(r) ==
  /\ \A r2 \in IdxReqs \ {r} :
       ~(ix[r2].proj = ix[r].proj /\ ix[r2].srv = "run")
  /\ srvProj[ix[r].proj].status # "error"

SrvMayStart(r) ==
  \A r2 \in IdxReqs \ {r} : ~(ix[r2].proj = ix[r].proj /\ ix[r2].srv = "run")

\* An event written to the response stream; it is dropped when the client
\* has gone.
Emit(rec, e) == IF rec.conn THEN rec.wire \o Frame(e) ELSE rec.wire

\* The job emits an event.
IxEmit(rec, e) == [rec EXCEPT !.wire = Emit(rec, e), !.log = Append(@, e)]

\* The stream takes the next event (the bound on the bytes in flight).
MayWrite(rec) == Len(rec.wire) < MaxWire

\* An invocation that has returned and whose job is over holds nothing the
\* program can still read.
IxSettled == [IxUnused EXCEPT !.cpc = "end", !.srv = "over"]

Settle(rec) ==
  IF rec.cpc = "end" /\ rec.srv \in {"done", "rejected", "lost"}
    THEN IxSettled ELSE rec

\* What the Indexer writes to the vector store after one embedded file:
\* nothing, the chunks are accumulated and published after the scan.
StoreAfterFileIncremental(coll, p, r, f) ==
  [coll EXCEPT ![p] = @ \cup {<<f, r>>}]

StoreAfterFile(coll, p, r, f) == coll

\* upsertCollection(projectId, chunks): replaces the whole chunk set.
upsertCollection(coll, p, chunks) == [coll EXCEPT ![p] = chunks]

\* The terminal event of a scan: NoFilesEmbedded when nothing succeeded.
Terminal(accd) ==
  IF accd = {} THEN Ev("error", 0) ELSE Ev("complete", Cardinality(accd))

\* POST /projects/{id}/index arrives.
SrvIndexRecv(r) ==
  /\ ix[r].cpc = "open"
  /\ ix[r].srv = "none"
  /\ IF srvProj[ix[r].proj].exists /\ SrvMayStart(r)
       THEN /\ ix' = [ix EXCEPT ![r] =
                           IxEmit([ix[r] EXCEPT !.srv = "run"],
                                  Ev("scan_start", 0))]
            /\ srvProj' = [srvProj EXCEPT ![ix[r].proj].status = "indexing"]
       ELSE \* ConcurrentIndexConflict, or no such project: an error
            \* response, no event stream
            /\ ix' = [ix EXCEPT ![r].srv = "rejected",
                                ![r].wire = <<Raw>>,
                                ![r].closed = TRUE]
            /\ UNCHANGED srvProj
  /\ UNCHANGED <<collection, projects, selectedProjectId, loads,
                 indexingProjectId, indexProgress, nIx, dels, chatVars, rrVars, convVars, agentVars>>

\* After a fatal error the job is over and its event stream ends.
AfterFatalGoesOn(rec) == rec

AfterFatal(rec) == [rec EXCEPT !.srv = "done", !.closed = TRUE]

\* InvalidSourceDirectory: fatal, before any file is scanned.
SrvInvalidDir(r) ==
  /\ ix[r].srv = "run"
  /\ MayWrite(ix[r])
  /\ ix[r].cur = 0
  /\ ix' = [ix EXCEPT ![r] =
              Settle(AfterFatal(IxEmit([ix[r] EXCEPT !.term = "error"],
                                       Ev("error", 0))))]
  /\ srvProj' = [srvProj EXCEPT ![ix[r].proj].status = "error"]
  /\ UNCHANGED <<collection, projects, selectedProjectId, loads,
                 indexingProjectId, indexProgress, nIx, dels, chatVars, rrVars, convVars, agentVars>>

\* The current field of the progress event after one more file, embedded
\* (ok) or failed: the number of files processed.
ProgressCurrentEmbeddedOnly(rec, ok) ==
  Cardinality(rec.acc) + (IF ok THEN 1 ELSE 0)

ProgressCurrent(rec, ok) == rec.cur + 1

\* One file of the scan: embedded or failed; a progress event either way.
SrvEmbedFile(r) ==
  /\ ix[r].srv = "run"
  /\ MayWrite(ix[r])
  /\ ix[r].cur < NFiles
  /\ \E ok \in BOOLEAN :
       LET f == ix[r].cur + 1 IN
       /\ ix' = [ix EXCEPT ![r] =
                    IxEmit([ix[r] EXCEPT !.cur = f,
                                         !.acc = IF ok THEN @ \cup {f} ELSE @],
                           Ev("indexing", ProgressCurrent(ix[r], ok)))]
       /\ collection' = IF ok THEN StoreAfterFile(collection, ix[r].proj, r, f)
                        ELSE collection
  /\ UNCHANGED <<srvProj, projects, selectedProjectId, loads,
                 indexingProjectId, indexProgress, nIx, dels, chatVars, rrVars, convVars, agentVars>>

\* The scan is over: publish the chunk set and report, or fail the job.
SrvFinish(r) ==
  /\ ix[r].srv = "run"
  /\ MayWrite(ix[r])
  /\ ix[r].cur = NFiles
  /\ LET p == ix[r].proj
         t == Terminal(ix[r].acc)
     IN /\ ix' = [ix EXCEPT ![r] =
                    Settle(IxEmit([ix[r] EXCEPT !.srv = "done",
                                                !.term = t.type,
                                                !.closed = TRUE], t))]
        /\ IF t.type = "complete"
             THEN /\ collection' = upsertCollection(collection, p,
                                      {<<f, r>> : f \in ix[r].acc})
                  /\ srvProj' = [srvProj EXCEPT ![p].status = "indexed",
                                                ![p].file_count = t.data]
             ELSE /\ collection' = collection
                  /\ srvProj' = [srvProj EXCEPT ![p].status = "error"]
  /\ UNCHANGED <<projects, selectedProjectId, loads,
                 indexingProjectId, indexProgress, nIx, dels, chatVars, rrVars, convVars, agentVars>>

(***************************************************************************)
(* ProjectProvider.                                                        *)
(***************************************************************************)
\* prev.map(p => p.id === projectId ? { ...p, ...updates } : p)
updateProjectInList(projs, pid, updates) ==
  [p \in ProjIds |->
     IF p = pid /\ projs[p].inList
       THEN [f \in DOMAIN projs[p] |->
               IF f \in DOMAIN updates THEN updates[f] ELSE projs[p][f]]
       ELSE projs[p]]

\* data.projects.find(p => p.status === 'indexed')
FirstIndexed(list) ==
  LET S == {p \in ProjIds : list[p].inList /\ list[p].status = "indexed"}
  IN IF S = {} THEN NoProj ELSE CHOOSE p \in S : \A q \in S : p <= q

\* projectApi.list(): the registry as the server holds it.
ListProjects ==
  [p \in ProjIds |->
     IF srvProj[p].exists
       THEN [inList |-> TRUE, status |-> srvProj[p].status,
             file_count |-> srvProj[p].file_count]
       ELSE NotListed]

\* ChatProvider: currentConversationId = useState(null)
NoConv == 0

\* The variant without the effect: the current conversation outlives a
\* change of the selected project.
AfterProjectChangeKeeps(sel) == UNCHANGED currentConversationId

\* ChatProvider's effect on [selectedProjectId]: setCurrentConversationId(null) after
\* every change of the selected project.
AfterProjectChange(sel) ==
  currentConversationId' =
    IF sel # selectedProjectId THEN NoConv ELSE currentConversationId

\* loadProjects, from the answer of projectApi.list() on.  sel is the
\* selectedProjectId the callback was created with.
LoadDone(sel) ==
  /\ sel \in loads
  /\ loads' = loads \ {sel}
  /\ projects' = ListProjects
  /\ selectedProjectId' =
       IF sel = NoProj /\ (\E p \in ProjIds : ListProjects[p].inList)
                       /\ FirstIndexed(ListProjects) # NoProj
         THEN FirstIndexed(ListProjects)
         ELSE selectedProjectId
  /\ AfterProjectChange(selectedProjectId')
  /\ UNCHANGED <<srvProj, collection, indexingProjectId, indexProgress,
                 ix, nIx, dels, chatVars, rrVars, conversationsByProject,
                 now, onComplete, agentVars>>

\* loadProjects when projectApi.list() throws: the list stays as it is.
LoadFail(sel) ==
  /\ sel \in loads
  /\ loads' = loads \ {sel}
  /\ UNCHANGED <<srvProj, collection, projects, selectedProjectId,
                 indexingProjectId, indexProgress, ix, nIx, dels, chatVars, rrVars, convVars, agentVars>>

\* The project selector of the chat page offers the indexed projects.
SelectProject(p) ==
  /\ projects[p].inList
  /\ projects[p].status = "indexed"
  /\ selectedProjectId # p
  /\ selectedProjectId' = p
  /\ AfterProjectChange(p)
  /\ UNCHANGED <<srvProj, collection, projects, loads, indexingProjectId,
                 indexProgress, ix, nIx, dels, chatVars, rrVars,
                 conversationsByProject, now, onComplete, agentVars>>

(***************************************************************************)
(* TrainingPage.                                                           *)
(***************************************************************************)
\* ProjectCard: the index / re-index / retry button is rendered for the
\* statuses idle, indexed and error, and disabled while isIndexing.
CanStartIndex(p) ==
  /\ projects[p].inList
  /\ projects[p].status \in {"idle", "indexed", "error"}
  /\ indexingProjectId # p

\* The dispatch of one parsed event of the index stream.
\* st = [projects, progress, lastSet, fcSet]
OnIndexEventErrorIgnored(st, pid, e) ==
  IF e.type \in {"complete", "error"}
    THEN [st EXCEPT !.progress = e,
                    !.projects = updateProjectInList(@, pid,
                                   [status |-> "indexed",
                                    file_count |-> e.data]),
                    !.lastSet = "indexed",
                    !.fcSet = e.data]
    ELSE [st EXCEPT !.progress = e]

OnIndexEventCountsScanned(st, pid, e) ==
  IF e.type = "complete"
    THEN [st EXCEPT !.progress = e,
                    !.projects = updateProjectInList(@, pid,
                                   [status |-> "indexed",
                                    file_count |-> NFiles]),
                    !.lastSet = "indexed",
                    !.fcSet = NFiles]
    ELSE IF e.type = "error"
      THEN [st EXCEPT !.progress = e,
                      !.projects = updateProjectInList(@, pid,
                                     [status |-> "error"]),
                      !.lastSet = "error"]
      ELSE [st EXCEPT !.progress = e]

OnIndexEvent(st, pid, e) ==
  IF e.type = "complete"
    THEN [st EXCEPT !.progress = e,
                    !.projects = updateProjectInList(@, pid,
                                   [status |-> "indexed",
                                    file_count |-> e.data]),
                    !.lastSet = "indexed",
                    !.fcSet = e.data]
    ELSE IF e.type = "error"
      THEN [st EXCEPT !.progress = e,
                      !.projects = updateProjectInList(@, pid,
                                     [status |-> "error"]),
                      !.lastSet = "error"]
      ELSE [st EXCEPT !.progress = e]

RECURSIVE ApplyIndexEvents(_, _, _)
ApplyIndexEvents(evs, pid, st) ==
  IF evs = <<>> THEN st
  ELSE ApplyIndexEvents(Tail(evs), pid, OnIndexEvent(st, pid, Head(evs)))

\* startIndexing up to its fetch: the state it sets and the request it
\* issues.  selCap is the selectedProjectId its refreshProjects closes over.
StartIndexing(p) ==
  /\ nIx < MaxIdxReq
  /\ nIx' = nIx + 1
  /\ indexingProjectId' = p
  /\ indexProgress' = Ev("scan_start", 0)
  /\ projects' = updateProjectInList(projects, p, [status |-> "indexing"])
  /\ ix' = [ix EXCEPT ![nIx + 1] =
              [IxUnused EXCEPT !.proj = p, !.cpc = "open", !.conn = TRUE,
                               !.selCap = selectedProjectId]]

\* A click on the index, re-index or retry button of a project card.
ClickIndex(p) ==
  /\ CanStartIndex(p)
  /\ StartIndexing(p)
  /\ UNCHANGED <<srvProj, collection, selectedProjectId, loads, dels, chatVars, rrVars, convVars, agentVars>>

\* AddProjectModal.handleSubmit with the server's creation of the project,
\* then onCreated: refreshProjects() and startIndexing(project.id).
CreateProject(p) ==
  /\ ~srvProj[p].exists
  /\ \A q \in ProjIds : q < p => srvProj[q].exists
  /\ srvProj' = [srvProj EXCEPT ![p] =
                   [exists |-> TRUE, status |-> "idle", file_count |-> 0]]
  /\ loads' = loads \cup {selectedProjectId}
  /\ StartIndexing(p)
  /\ UNCHANGED <<collection, selectedProjectId, dels, chatVars, rrVars, convVars, agentVars>>

\* One reader.read() that yields the first n bytes in flight, and the
\* dispatch of the lines of that chunk.
IdxReadChunk(r, n) ==
  /\ ix[r].cpc = "open"
  /\ n \in 1..Len(ix[r].wire)
  /\ LET st == ApplyIndexEvents(ParseChunk(Prefix(ix[r].wire, n)), ix[r].proj,
                 [projects |-> projects, progress |-> indexProgress,
                  lastSet |-> ix[r].lastSet, fcSet |-> ix[r].fcSet])
     IN /\ projects' = st.projects
        /\ indexProgress' = st.progress
        /\ ix' = [ix EXCEPT ![r].wire = Suffix(@, n),
                            ![r].lastSet = st.lastSet,
                            ![r].fcSet = st.fcSet]
  /\ UNCHANGED <<srvProj, collection, selectedProjectId, loads,
                 indexingProjectId, nIx, dels, chatVars, rrVars, convVars, agentVars>>

\* reader.read() reports the end of the stream: the loop ends, the finally
\* block arms the timer.
IdxReadDone(r) ==
  /\ ix[r].cpc = "open"
  /\ ix[r].closed
  /\ ix[r].wire = <<>>
  /\ ix' = [ix EXCEPT ![r].cpc = "timer"]
  /\ UNCHANGED <<srvProj, collection, projects, selectedProjectId, loads,
                 indexingProjectId, indexProgress, nIx, dels, chatVars, rrVars, convVars, agentVars>>

\* reader.read() rejects (the connection broke): catch, then finally.  The
\* server's job goes on.
IdxReadFail(r) ==
  /\ ix[r].cpc = "open"
  /\ ix[r].srv \notin {"none", "lost"}
  /\ ~(ix[r].closed /\ ix[r].wire = <<>>)
  /\ projects' = updateProjectInList(projects, ix[r].proj, [status |-> "error"])
  /\ ix' = [ix EXCEPT ![r].cpc = "timer", ![r].conn = FALSE,
                      ![r].wire = <<>>, ![r].lastSet = "error"]
  /\ UNCHANGED <<srvProj, collection, selectedProjectId, loads,
                 indexingProjectId, indexProgress, nIx, dels, chatVars, rrVars, convVars, agentVars>>

\* fetch rejects: the request never reached the server.
IdxFetchFail(r) ==
  /\ ix[r].cpc = "open"
  /\ ix[r].srv = "none"
  /\ projects' = updateProjectInList(projects, ix[r].proj, [status |-> "error"])
  /\ ix' = [ix EXCEPT ![r].cpc = "timer", ![r].conn = FALSE,
                      ![r].srv = "lost", ![r].lastSet = "error"]
  /\ UNCHANGED <<srvProj, collection, selectedProjectId, loads,
                 indexingProjectId, indexProgress, nIx, dels, chatVars, rrVars, convVars, agentVars>>

\* The timer of the finally block, one second later.
IdxTimer(r) ==
  /\ ix[r].cpc = "timer"
  /\ indexingProjectId' = NoProj
  /\ indexProgress' = NoEv
  /\ loads' = loads \cup {ix[r].selCap}
  /\ ix' = [ix EXCEPT ![r] = Settle([ix[r] EXCEPT !.cpc = "end"])]
  /\ UNCHANGED <<srvProj, collection, projects, selectedProjectId, nIx,
                 dels, chatVars, rrVars, convVars, agentVars>>

\* The delete button of a project card, enabled unless isIndexing:
\* deleteProject up to its request.  The second component is the
\* selectedProjectId its refreshProjects closes over.
DeleteProject(p) ==
  /\ projects[p].inList
  /\ indexingProjectId # p
  /\ \A d \in dels : d[1] # p
  /\ dels' = dels \cup {<<p, selectedProjectId>>}
  /\ UNCHANGED <<srvProj, collection, projects, selectedProjectId, loads,
                 indexingProjectId, indexProgress, ix, nIx, chatVars, rrVars, convVars, agentVars>>

\* DELETE /projects/{id}: the Project Manager awaits the project's indexing
\* job before it removes the collection.
SrvMayDeleteAlways(p) == TRUE

SrvMayDelete(p) ==
  \A r \in IdxReqs : ~(ix[r].proj = p /\ ix[r].srv = "run")

\* The delete request is served (the project and, in cascade, its
\* collection are removed) and deleteProject goes on: refreshProjects().
DelDone(d) ==
  /\ d \in dels
  /\ srvProj[d[1]].exists
  /\ SrvMayDelete(d[1])
  /\ srvProj' = [srvProj EXCEPT ![d[1]] = NoProject]
  /\ collection' = [collection EXCEPT ![d[1]] = {}]
  /\ dels' = dels \ {d}
  /\ loads' = loads \cup {d[2]}
  /\ UNCHANGED <<projects, selectedProjectId, indexingProjectId,
                 indexProgress, ix, nIx, chatVars, rrVars, convVars, agentVars>>

\* projectApi.delete throws (no connection, or the project is gone): the
\* catch block shows a message.
DelFail(d) ==
  /\ d \in dels
  /\ dels' = dels \ {d}
  /\ UNCHANGED <<srvProj, collection, projects, selectedProjectId, loads,
                 indexingProjectId, indexProgress, ix, nIx, chatVars, rrVars, convVars, agentVars>>

(***************************************************************************)
(* Server: POST /ask/stream (Retriever, Reranker, Generator).              *)
(***************************************************************************)
NoSources == 0

\* One sendMessage invocation: the client's position (pc), its locals
\* (content, sources), the response stream (wire, closed, conn), the
\* server's side of it (srv, sent, log: the event types written so far;
\* embeds: the calls of the Embedding Client; err: the error it answered
\* with), the results handed to onComplete (completions) and the way the
\* invocation left its try block (exit: eos, abort or catch).  The
\* AbortController created by invocation q is named q.
AskUnused ==
  [pc |-> "unused", proj |-> NoProj, content |-> <<>>, sources |-> NoSources,
   wire |-> <<>>, closed |-> FALSE, conn |-> FALSE,
   srv |-> "none", sent |-> 0, log |-> <<>>, completions |-> <<>>,
   embeds |-> 0, err |-> "none", exit |-> "none"]

AskEmit(rec, e) ==
  [rec EXCEPT !.wire = IF rec.conn THEN @ \o Frame(e) ELSE @,
              !.log = Append(@, e.type)]

\* The Generator yields increments only until the answer is finished.
SrvMayEmitContentLate(rec) == rec.srv \in {"gen", "done"}

SrvMayEmitContent(rec) == rec.srv = "gen"

\* The Retriever looks for the project's collection before it embeds the
\* question.
HasCollection(p) == collection[p] # {}

\* The request arrives.  Without a collection it fails with
\* ProjectNotIndexed, before any embedding call.  Otherwise the question is
\* embedded: retrieval and reranking, then the sources event; or
\* EmbeddingUnavailable.  A failure before the stream starts is an error
\* response.
SrvAskRecv(q) ==
  /\ ask[q].pc = "open"
  /\ ask[q].srv = "none"
  /\ IF ~HasCollection(ask[q].proj)
       THEN ask' = [ask EXCEPT ![q].srv = "rejected",
                               ![q].err = "ProjectNotIndexed"]
       ELSE \/ ask' = [ask EXCEPT ![q] =
                        AskEmit([ask[q] EXCEPT !.srv = "gen", !.embeds = 1],
                                Ev("sources", q))]
            \/ ask' = [ask EXCEPT ![q].srv = "rejected",
                                  ![q].embeds = 1,
                                  ![q].err = "EmbeddingUnavailable"]
  /\ UNCHANGED <<agentVars, convVars, rrVars, idxVars, isStreaming, streamingContent, streamingSources,
                 chatError, abortCur, aborted, nAsk>>

\* The text of the j-th increment of the answer to request q.
DeltaOf(q, j) == q * (MaxDeltas + 1) + j

\* The next increment of the LLM, re-emitted as a content event.
SrvContent(q) ==
  /\ SrvMayEmitContent(ask[q])
  /\ ask[q].sent < MaxDeltas
  /\ ask' = [ask EXCEPT ![q] =
               AskEmit([ask[q] EXCEPT !.sent = @ + 1],
                       Ev("content", DeltaOf(q, ask[q].sent + 1)))]
  /\ UNCHANGED <<agentVars, convVars, rrVars, idxVars, isStreaming, streamingContent, streamingSources,
                 chatError, abortCur, aborted, nAsk>>

\* The LLM has finished: the done event, and the stream ends.
SrvDone(q) ==
  /\ ask[q].srv = "gen"
  /\ ask' = [ask EXCEPT ![q] =
               AskEmit([ask[q] EXCEPT !.srv = "done", !.closed = TRUE],
                       Ev("done", 0))]
  /\ UNCHANGED <<agentVars, convVars, rrVars, idxVars, isStreaming, streamingContent, streamingSources,
                 chatError, abortCur, aborted, nAsk>>

\* GenerationFailed in mid-stream: the sequence is terminated, no done.
SrvGenFail(q) ==
  /\ ask[q].srv = "gen"
  /\ ask' = [ask EXCEPT ![q].srv = "failed", ![q].closed = TRUE]
  /\ UNCHANGED <<agentVars, convVars, rrVars, idxVars, isStreaming, streamingContent, streamingSources,
                 chatError, abortCur, aborted, nAsk>>

(***************************************************************************)
(* ChatProvider: the conversations of each project.  A conversation is     *)
(* [id, title, messages]; its id is the clock reading at its creation      *)
(* (Date.now().toString() is one-to-one, the reading stands for the        *)
(* string).  A title is the number of the question it was taken from; the  *)
(* cut to 30 characters is not modelled.                                   *)
(***************************************************************************)
MaxNow == 2       \* clock readings 1..MaxNow
MaxConv == 2      \* conversations of one project

NewTitle == 0

UserMessage(q) ==
  [role |-> "user", ask |-> q, content |-> <<>>, sources |-> NoSources]
AssistantMessage(q, result) ==
  [role |-> "assistant", ask |-> q, content |-> result.content,
   sources |-> result.sources]

\* conversations = conversationsByProject[selectedProjectId] || []
Conversations(store, sel) == IF sel = NoProj THEN <<>> ELSE store[sel]

\* conversations.find(c => c.id === currentConversationId) || null, and
\* the messages of it (currentConversation?.messages || [])
CurrentMessages(store, sel, cur) ==
  LET cs == Conversations(store, sel)
      hits == {i \in DOMAIN cs : cs[i].id = cur}
  IN IF hits = {} THEN <<>>
     ELSE cs[CHOOSE i \in hits : \A j \in hits : i <= j].messages

\* createConversation: the new conversation goes to the front of the list
\* of the selected project.
createConversation(store, sel, id) ==
  IF sel = NoProj THEN store
  ELSE [store EXCEPT ![sel] =
          <<[id |-> id, title |-> NewTitle, messages |-> <<>>]>> \o @]

\* The variant that writes to the conversation on display, whatever
\* conversation id the caller names.
addMessageToCurrent(store, sel, cur, message, conversationId) ==
  IF sel = NoProj \/ cur = NoConv THEN store
  ELSE [store EXCEPT ![sel] =
          [i \in DOMAIN store[sel] |->
             IF store[sel][i].id = cur
               THEN [store[sel][i] EXCEPT !.messages = Append(@, message)]
               ELSE store[sel][i]]]

\* addMessage(message, conversationId), created with selectedProjectId sel
\* and currentConversationId cur.
addMessage(store, sel, cur, message, conversationId) ==
  LET targetConvId == IF conversationId # NoConv THEN conversationId ELSE cur
  IN IF sel = NoProj \/ targetConvId = NoConv THEN store
     ELSE [store EXCEPT ![sel] =
             [i \in DOMAIN store[sel] |->
                IF store[sel][i].id = targetConvId
                  THEN [store[sel][i] EXCEPT !.messages = Append(@, message)]
                  ELSE store[sel][i]]]

\* updateConversationTitle(title, conversationId)
updateConversationTitle(store, sel, cur, title, conversationId) ==
  LET targetConvId == IF conversationId # NoConv THEN conversationId ELSE cur
  IN IF sel = NoProj \/ targetConvId = NoConv THEN store
     ELSE [store EXCEPT ![sel] =
             [i \in DOMAIN store[sel] |->
                IF store[sel][i].id = targetConvId
                  THEN [store[sel][i] EXCEPT !.title = title]
                  ELSE store[sel][i]]]

\* prev[selectedProjectId].filter(c => c.id !== conversationId)
RECURSIVE WithoutId(_, _)
WithoutId(cs, id) ==
  IF cs = <<>> THEN <<>>
  ELSE (IF Head(cs).id = id THEN <<>> ELSE <<Head(cs)>>)
         \o WithoutId(Tail(cs), id)

deleteConversation(store, sel, id) ==
  IF sel = NoProj THEN store
  ELSE [store EXCEPT ![sel] = WithoutId(@, id)]

\* The callback a sendMessage is called with.  handleSend's callback holds
\* the addMessage of the render it was created in (proj, cur) and the
\* conversation id of the question (convId).
NoCallback == [proj |-> NoProj, cur |-> NoConv, convId |-> NoConv]

\* The variant whose callback writes to the project and the conversation
\* on display when the result arrives.
RECURSIVE CallOnCompleteOnDisplay(_, _, _, _)
CallOnCompleteOnDisplay(store, cb, q, results) ==
  IF results = <<>> \/ cb = NoCallback THEN store
  ELSE CallOnCompleteOnDisplay(
         addMessage(store, selectedProjectId, currentConversationId,
                    AssistantMessage(q, Head(results)), NoConv),
         cb, q, Tail(results))

\* onComplete?.(result) for each result of one read, in their order.
RECURSIVE CallOnComplete(_, _, _, _)
CallOnComplete(store, cb, q, results) ==
  IF results = <<>> THEN store
  ELSE CallOnComplete(
         addMessage(store, cb.proj, cb.cur,
                    AssistantMessage(q, Head(results)), cb.convId),
         cb, q, Tail(results))

\* The button "new conversation".
NewConversation ==
  /\ selectedProjectId # NoProj
  /\ Len(conversationsByProject[selectedProjectId]) < MaxConv
  /\ conversationsByProject' =
       createConversation(conversationsByProject, selectedProjectId, now)
  /\ currentConversationId' = now
  /\ UNCHANGED <<now, onComplete, agentVars, rrVars, idxVars, chatVars>>

\* A click on a conversation of the list.
SelectConversation(i) ==
  /\ i \in DOMAIN Conversations(conversationsByProject, selectedProjectId)
  /\ currentConversationId' = conversationsByProject[selectedProjectId][i].id
  /\ currentConversationId' # currentConversationId
  /\ UNCHANGED <<conversationsByProject, now, onComplete, agentVars, rrVars,
                 idxVars, chatVars>>

\* The delete button of a conversation of the list.
DeleteConversation(i) ==
  /\ i \in DOMAIN Conversations(conversationsByProject, selectedProjectId)
  /\ LET id == conversationsByProject[selectedProjectId][i].id
     IN /\ conversationsByProject' =
             deleteConversation(conversationsByProject, selectedProjectId, id)
        /\ currentConversationId' =
             IF currentConversationId = id THEN NoConv
             ELSE currentConversationId
  /\ UNCHANGED <<now, onComplete, agentVars, rrVars, idxVars, chatVars>>

\* Time passes.
Tick ==
  /\ now < MaxNow
  /\ now' = now + 1
  /\ UNCHANGED <<conversationsByProject, currentConversationId, onComplete,
                 agentVars, rrVars, idxVars, chatVars>>

(***************************************************************************)
(* useStreamingChat, and the guard of its caller ChatMainArea.handleSend.   *)
(***************************************************************************)
\* canSend = !!selectedProjectId && selectedProject?.status === 'indexed'
CanSend ==
  /\ selectedProjectId # NoProj
  /\ projects[selectedProjectId].inList
  /\ projects[selectedProjectId].status = "indexed"

\* sendMessage(projectId, question, onComplete) up to its fetch, called
\* when canSend holds.
SendMessageWith(cb) ==
  /\ CanSend
  /\ nAsk < MaxAsk
  /\ onComplete' = [onComplete EXCEPT ![nAsk + 1] = cb]
  /\ nAsk' = nAsk + 1
  /\ isStreaming' = TRUE
  /\ streamingContent' = <<>>
  /\ streamingSources' = NoSources
  /\ chatError' = "none"
  /\ abortCur' = nAsk + 1
  /\ ask' = [ask EXCEPT ![nAsk + 1] =
               [AskUnused EXCEPT !.pc = "open", !.conn = TRUE,
                                 !.proj = selectedProjectId]]
  /\ UNCHANGED <<agentVars, rrVars, idxVars, aborted>>

\* sendMessage on its own: the conversations are not looked at.
SendMessage ==
  /\ SendMessageWith(NoCallback)
  /\ UNCHANGED <<conversationsByProject, currentConversationId, now>>

\* handleSend (send button, Enter key, example question): the conversation
\* of the question, the user's message, the title, then sendMessage.
HandleSend ==
  LET q == nAsk + 1
      sel == selectedProjectId
      cur == currentConversationId
      convId == IF cur = NoConv THEN now ELSE cur
      created == IF cur = NoConv
                   THEN createConversation(conversationsByProject, sel, now)
                   ELSE conversationsByProject
      asked == addMessage(created, sel, cur, UserMessage(q), convId)
      titled == IF CurrentMessages(conversationsByProject, sel, cur) = <<>>
                  THEN updateConversationTitle(asked, sel, cur, q, convId)
                  ELSE asked
  IN /\ SendMessageWith([proj |-> sel, cur |-> cur, convId |-> convId])
     /\ conversationsByProject' = titled
     /\ currentConversationId' = convId
     /\ UNCHANGED now

\* The dispatch of one parsed event of the answer stream.
\* st = [rec, streamingContent, streamingSources]
OnAskEventSharedContent(st, e) ==
  IF e.type = "sources"
    THEN [st EXCEPT !.rec.sources = e.data, !.streamingSources = e.data]
  ELSE IF e.type = "content"
    THEN [st EXCEPT !.rec.content = Append(st.streamingContent, e.data),
                    !.streamingContent = Append(st.streamingContent, e.data)]
  ELSE IF e.type = "done"
    THEN [st EXCEPT !.rec.completions =
            Append(@, [content |-> st.rec.content, sources |-> st.rec.sources])]
  ELSE st

\* The variant that hands a result to onComplete on every content event
\* too.
OnAskEventCompletesOnContent(st, e) ==
  IF e.type = "sources"
    THEN [st EXCEPT !.rec.sources = e.data, !.streamingSources = e.data]
  ELSE IF e.type = "content"
    THEN [st EXCEPT !.rec.content = Append(@, e.data),
                    !.streamingContent = Append(st.rec.content, e.data),
                    !.rec.completions =
                       Append(@, [content |-> Append(st.rec.content, e.data),
                                  sources |-> st.rec.sources])]
  ELSE IF e.type = "done"
    THEN [st EXCEPT !.rec.completions =
            Append(@, [content |-> st.rec.content, sources |-> st.rec.sources])]
  ELSE st

OnAskEvent(st, e) ==
  IF e.type = "sources"
    THEN [st EXCEPT !.rec.sources = e.data, !.streamingSources = e.data]
  ELSE IF e.type = "content"
    THEN [st EXCEPT !.rec.content = Append(@, e.data),
                    !.streamingContent = Append(st.rec.content, e.data)]
  ELSE IF e.type = "done"
    THEN [st EXCEPT !.rec.completions =
            Append(@, [content |-> st.rec.content, sources |-> st.rec.sources])]
  ELSE st

RECURSIVE ApplyAskEvents(_, _)
ApplyAskEvents(evs, st) ==
  IF evs = <<>> THEN st
  ELSE ApplyAskEvents(Tail(evs), OnAskEvent(st, Head(evs)))

\* abortControllerRef.current?.signal.aborted
AbortSeen(q) == abortCur # 0 /\ abortCur \in aborted

\* The finally block of sendMessage.
AskFinally(q, rec) ==
  /\ ask' = [ask EXCEPT ![q] = [rec EXCEPT !.pc = "end", !.conn = FALSE,
                                           !.wire = <<>>]]
  /\ isStreaming' = FALSE
  /\ streamingContent' = <<>>
  /\ streamingSources' = NoSources

\* One reader.read() that yields the first n bytes in flight: the abort
\* check, then the dispatch of the lines of that chunk.
AskReadChunk(q, n) ==
  /\ ask[q].pc = "open"
  /\ n \in 1..Len(ask[q].wire)
  /\ IF AbortSeen(q)
       THEN /\ AskFinally(q, [ask[q] EXCEPT !.exit = "abort"])
            /\ UNCHANGED conversationsByProject
       ELSE LET st == ApplyAskEvents(ParseChunk(Prefix(ask[q].wire, n)),
                        [rec |-> [ask[q] EXCEPT !.wire = Suffix(@, n)],
                         streamingContent |-> streamingContent,
                         streamingSources |-> streamingSources])
            IN /\ ask' = [ask EXCEPT ![q] = st.rec]
               /\ streamingContent' = st.streamingContent
               /\ streamingSources' = st.streamingSources
               /\ conversationsByProject' =
                    CallOnComplete(conversationsByProject, onComplete[q], q,
                      SubSeq(st.rec.completions,
                             Len(ask[q].completions) + 1,
                             Len(st.rec.completions)))
               /\ UNCHANGED isStreaming
  /\ UNCHANGED <<agentVars, currentConversationId, now, onComplete, rrVars,
                 idxVars, chatError, abortCur, aborted, nAsk>>

\* reader.read() reports the end of the stream.
AskReadDone(q) ==
  /\ ask[q].pc = "open"
  /\ ask[q].srv \in {"done", "failed"}
  /\ ask[q].closed
  /\ ask[q].wire = <<>>
  /\ AskFinally(q, [ask[q] EXCEPT !.exit = "eos"])
  /\ UNCHANGED <<agentVars, convVars, rrVars, idxVars, chatError, abortCur, aborted, nAsk>>

\* reader.read() rejects (the connection broke): catch, then finally.
AskReadFail(q) ==
  /\ ask[q].pc = "open"
  /\ ask[q].srv \in {"gen", "done", "failed"}
  /\ ~(ask[q].closed /\ ask[q].wire = <<>>)
  /\ chatError' = "failed"
  /\ AskFinally(q, [ask[q] EXCEPT !.exit = "catch"])
  /\ UNCHANGED <<agentVars, convVars, rrVars, idxVars, abortCur, aborted, nAsk>>

\* fetch rejects: the request never reached the server.
AskFetchFail(q) ==
  /\ ask[q].pc = "open"
  /\ ask[q].srv = "none"
  /\ chatError' = "failed"
  /\ AskFinally(q, [ask[q] EXCEPT !.srv = "lost", !.exit = "catch"])
  /\ UNCHANGED <<agentVars, convVars, rrVars, idxVars, abortCur, aborted, nAsk>>

\* The variant that treats an error response like an abort: nothing is
\* reported.
AskHttpErrorSilent(q) ==
  /\ ask[q].pc = "open"
  /\ ask[q].srv = "rejected"
  /\ AskFinally(q, [ask[q] EXCEPT !.exit = "catch"])
  /\ UNCHANGED <<agentVars, convVars, rrVars, idxVars, chatError, abortCur,
                 aborted, nAsk>>

\* !response.ok: throw new Error(errData.detail || `HTTP ${status}`).
AskHttpError(q) ==
  /\ ask[q].pc = "open"
  /\ ask[q].srv = "rejected"
  /\ chatError' = "http"
  /\ AskFinally(q, [ask[q] EXCEPT !.exit = "catch"])
  /\ UNCHANGED <<agentVars, convVars, rrVars, idxVars, abortCur, aborted, nAsk>>

\* cancelStream, behind the stop button shown while isStreaming.
CancelStream ==
  /\ isStreaming
  /\ aborted' = IF abortCur # 0 THEN aborted \cup {abortCur} ELSE aborted
  /\ UNCHANGED <<agentVars, convVars, rrVars, idxVars, isStreaming, streamingContent, streamingSources,
                 chatError, abortCur, ask, nAsk>>

(***************************************************************************)
(* useAgentChat.  The answer of agentApi.askAgent is an event stream of    *)
(* step events and a complete event; what the server sends is an input.    *)
(***************************************************************************)
MaxRun == 2       \* runAgent invocations in one run
MaxSteps == 2     \* step events of one agent run
MaxStepData == 2  \* a step is one of 1..MaxStepData

Runs == 1..MaxRun
NoStep == 0
NoAnswer == 0

\* One runAgent invocation: the client's position (pc), its locals (buffer,
\* allSteps), the response stream (wire, closed), the server's side of it
\* (srv, log: the events written so far) and the results handed to
\* onComplete (completions).
RunUnused ==
  [pc |-> "unused", wire |-> <<>>, closed |-> FALSE, buffer |-> <<>>,
   allSteps |-> <<>>, completions |-> <<>>, srv |-> "none", log |-> <<>>,
   exit |-> "none"]

\* runAgent up to its fetch.
RunAgent ==
  /\ nRun < MaxRun
  /\ nRun' = nRun + 1
  /\ isRunning' = TRUE
  /\ steps' = <<>>
  /\ currentStep' = NoStep
  /\ finalAnswer' = NoAnswer
  /\ agentError' = "none"
  /\ run' = [run EXCEPT ![nRun + 1] = [RunUnused EXCEPT !.pc = "open"]]
  /\ UNCHANGED <<agentAborted, convVars, rrVars, idxVars, chatVars>>

\* The server answers with an event stream, or refuses.
AgentSrvAccept(r) ==
  /\ run[r].pc = "open"
  /\ run[r].srv = "none"
  /\ \E a \in {"streaming", "rejected"} :
       run' = [run EXCEPT ![r].srv = a]
  /\ UNCHANGED <<isRunning, steps, currentStep, finalAnswer, agentError,
                 agentAborted, nRun, convVars, rrVars, idxVars, chatVars>>

AgentSrvStep(r, d) ==
  /\ run[r].srv = "streaming"
  /\ Len(run[r].log) < MaxSteps
  /\ run' = [run EXCEPT ![r].log = Append(@, Ev("step", d)),
                        ![r].wire = IF run[r].pc = "open"
                                      THEN @ \o Frame(Ev("step", d)) ELSE @]
  /\ UNCHANGED <<isRunning, steps, currentStep, finalAnswer, agentError,
                 agentAborted, nRun, convVars, rrVars, idxVars, chatVars>>

AgentSrvComplete(r) ==
  /\ run[r].srv = "streaming"
  /\ run' = [run EXCEPT ![r].log = Append(@, Ev("complete", r)),
                        ![r].wire = IF run[r].pc = "open"
                                      THEN @ \o Frame(Ev("complete", r))
                                      ELSE @,
                        ![r].srv = "done",
                        ![r].closed = TRUE]
  /\ UNCHANGED <<isRunning, steps, currentStep, finalAnswer, agentError,
                 agentAborted, nRun, convVars, rrVars, idxVars, chatVars>>

\* The dispatch of one parsed event.  st = [rec, steps, currentStep,
\* finalAnswer]
OnAgentEvent(st, e) ==
  IF e.type = "step"
    THEN [st EXCEPT !.rec.allSteps = Append(@, e.data),
                    !.steps = Append(st.rec.allSteps, e.data),
                    !.currentStep = e.data]
  ELSE IF e.type = "complete"
    THEN [st EXCEPT !.finalAnswer = e.data,
                    !.rec.completions =
                       Append(@, [answer |-> e.data,
                                  steps |-> st.rec.allSteps])]
  ELSE st

RECURSIVE ApplyAgentEvents(_, _)
ApplyAgentEvents(evs, st) ==
  IF evs = <<>> THEN st
  ELSE ApplyAgentEvents(Tail(evs), OnAgentEvent(st, Head(evs)))

\* The split without the buffer: the lines of the chunk alone, and nothing
\* kept for the next read.
AgentLinesUnbuffered(buffer, chunk) ==
  [lines |-> SplitLines(chunk), buffer |-> <<>>]

\* buffer += chunk; lines = buffer.split('\n'); buffer = lines.pop() || ''
AgentLines(buffer, chunk) ==
  LET all == SplitLines(buffer \o chunk)
  IN [lines |-> SubSeq(all, 1, Len(all) - 1), buffer |-> all[Len(all)]]

\* The finally block of runAgent.
AgentFinally(r, rec) ==
  /\ run' = [run EXCEPT ![r] = [rec EXCEPT !.pc = "end", !.wire = <<>>]]
  /\ isRunning' = FALSE
  /\ currentStep' = NoStep

\* One reader.read() that yields the first n bytes in flight.
AgentReadChunk(r, n) ==
  /\ run[r].pc = "open"
  /\ run[r].srv \in {"streaming", "done"}
  /\ n \in 1..Len(run[r].wire)
  /\ LET split == AgentLines(run[r].buffer, Prefix(run[r].wire, n))
         st == ApplyAgentEvents(EventsOfLines(split.lines),
                 [rec |-> [run[r] EXCEPT !.wire = Suffix(@, n),
                                         !.buffer = split.buffer],
                  steps |-> steps,
                  currentStep |-> currentStep,
                  finalAnswer |-> finalAnswer])
     IN /\ run' = [run EXCEPT ![r] = st.rec]
        /\ steps' = st.steps
        /\ currentStep' = st.currentStep
        /\ finalAnswer' = st.finalAnswer
  /\ UNCHANGED <<isRunning, agentError, agentAborted, nRun, convVars, rrVars,
                 idxVars, chatVars>>

\* reader.read() reports the end of the stream.
AgentReadDone(r) ==
  /\ run[r].pc = "open"
  /\ run[r].srv = "done"
  /\ run[r].closed
  /\ run[r].wire = <<>>
  /\ AgentFinally(r, [run[r] EXCEPT !.exit = "eos"])
  /\ UNCHANGED <<steps, finalAnswer, agentError, agentAborted, nRun,
                 convVars, rrVars, idxVars, chatVars>>

\* fetch or reader.read() rejects: catch, then finally.
AgentReadFail(r) ==
  /\ run[r].pc = "open"
  /\ run[r].srv \in {"none", "streaming", "done"}
  /\ ~(run[r].closed /\ run[r].wire = <<>>)
  /\ agentError' = "failed"
  /\ AgentFinally(r, [run[r] EXCEPT !.exit = "catch"])
  /\ UNCHANGED <<steps, finalAnswer, agentAborted, nRun, convVars, rrVars,
                 idxVars, chatVars>>

\* !response.ok: throw new Error(errData.detail || `HTTP ${status}`).
AgentHttpError(r) ==
  /\ run[r].pc = "open"
  /\ run[r].srv = "rejected"
  /\ agentError' = "http"
  /\ AgentFinally(r, [run[r] EXCEPT !.exit = "catch"])
  /\ UNCHANGED <<steps, finalAnswer, agentAborted, nRun, convVars, rrVars,
                 idxVars, chatVars>>

\* cancelAgent: abortControllerRef.current is the controller of the latest
\* runAgent; no request and no read was given its signal.
CancelAgent ==
  /\ nRun > 0
  /\ nRun \notin agentAborted
  /\ agentAborted' = agentAborted \cup {nRun}
  /\ isRunning' = FALSE
  /\ UNCHANGED <<steps, currentStep, finalAnswer, agentError, run, nRun,
                 convVars, rrVars, idxVars, chatVars>>

(***************************************************************************)
(* Server: Reranker.  Scores are integers; a candidate is named by its     *)
(* place in the retrieval order.                                           *)
(***************************************************************************)
WVec == 4         \* hybrid weight of the vector score, in tenths
WBm25 == 6        \* hybrid weight of the BM25 score, in tenths

Scores == 0..MaxScore
Candidate == [vector_score : Scores, bm25_score : Scores]

\* query(projectId, queryVector, topK): descending by similarity.
RetrievalOrdered(c) ==
  \A i, j \in 1..Len(c) : (i < j) => c[i].vector_score >= c[j].vector_score

MinOf(S) == CHOOSE x \in S : \A y \in S : x <= y
MaxOf(S) == CHOOSE x \in S : \A y \in S : x >= y
VectorScores(c) == {c[i].vector_score : i \in 1..Len(c)}
Bm25Scores(c) == {c[i].bm25_score : i \in 1..Len(c)}

\* Min-max normalisation within the batch, as a fraction NormNum / NormDen;
\* a batch whose scores are all equal normalises to 0.
NormNum(x, S) == IF MaxOf(S) = MinOf(S) THEN 0 ELSE x - MinOf(S)
NormDen(S) == IF MaxOf(S) = MinOf(S) THEN 1 ELSE MaxOf(S) - MinOf(S)

\* hybrid_score = 0.4 x normalised vector score + 0.6 x normalised BM25
\* score, multiplied by 10 and by both denominators of the batch.
HybridScore(c, i) ==
  WVec * NormNum(c[i].vector_score, VectorScores(c)) * NormDen(Bm25Scores(c))
    + WBm25 * NormNum(c[i].bm25_score, Bm25Scores(c)) * NormDen(VectorScores(c))

\* The sort order: descending hybrid_score, then descending vector_score,
\* then retrieval order.
RanksBefore(c, i, j) ==
  \/ HybridScore(c, i) > HybridScore(c, j)
  \/ /\ HybridScore(c, i) = HybridScore(c, j)
     /\ \/ c[i].vector_score > c[j].vector_score
        \/ (c[i].vector_score = c[j].vector_score /\ i < j)

RankOf(c, i) == 1 + Cardinality({j \in 1..Len(c) : RanksBefore(c, j, i)})

Scored(c, i) ==
  [chunk_ref |-> i, vector_score |-> c[i].vector_score,
   bm25_score |-> c[i].bm25_score, hybrid_score |-> HybridScore(c, i)]

ShorterOf(a, b) == IF a <= b THEN a ELSE b

\* rerank(candidates, top_n): score, sort, cut.
RerankRetrievalOrder(c, n) ==
  [k \in 1..ShorterOf(n, Len(c)) |-> Scored(c, k)]

Rerank(c, n) ==
  [k \in 1..ShorterOf(n, Len(c)) |->
     Scored(c, CHOOSE i \in 1..Len(c) : RankOf(c, i) = k)]

\* One rerank of the batch.
RerankBatch ==
  /\ Len(reranked) < MaxRerank
  /\ reranked' = Append(reranked, Rerank(candidates, TopN))
  /\ UNCHANGED <<candidates, idxVars, chatVars, convVars, agentVars>>

RerankIdle ==
  /\ candidates = <<>>
  /\ reranked = <<>>

(***************************************************************************)
(* Specifications.                                                         *)
(***************************************************************************)
ChatIdle ==
  /\ isStreaming = FALSE
  /\ streamingContent = <<>>
  /\ streamingSources = NoSources
  /\ chatError = "none"
  /\ abortCur = 0
  /\ aborted = {}
  /\ ask = [q \in Asks |-> AskUnused]
  /\ nAsk = 0

ConversationsIdle ==
  /\ conversationsByProject = [p \in ProjIds |-> <<>>]
  /\ currentConversationId = NoConv
  /\ now = 1
  /\ onComplete = [q \in Asks |-> NoCallback]

AgentIdle ==
  /\ isRunning = FALSE
  /\ steps = <<>>
  /\ currentStep = NoStep
  /\ finalAnswer = NoAnswer
  /\ agentError = "none"
  /\ agentAborted = {}
  /\ run = [r \in Runs |-> RunUnused]
  /\ nRun = 0

ServerInit ==
  /\ srvProj = [p \in ProjIds |->
                  IF p = 1 THEN [exists |-> TRUE, status |-> "indexed",
                                 file_count |-> NFiles]
                  ELSE NoProject]
  /\ collection = [p \in ProjIds |-> IF p = 1 THEN InitialChunks ELSE {}]

TrainingIdle ==
  /\ indexingProjectId = NoProj
  /\ indexProgress = NoEv
  /\ ix = [r \in IdxReqs |-> IxUnused]
  /\ nIx = 0
  /\ dels = {}

\* The application has just been mounted: the project list is empty and the
\* initial loadProjects is under way.
InitIndex ==
  /\ ServerInit
  /\ projects = [p \in ProjIds |-> NotListed]
  /\ selectedProjectId = NoProj
  /\ loads = {NoProj}
  /\ TrainingIdle
  /\ ChatIdle
  /\ RerankIdle
  /\ ConversationsIdle
  /\ AgentIdle

IndexNext ==
  \/ \E r \in IdxReqs :
       \/ SrvIndexRecv(r)
       \/ SrvInvalidDir(r)
       \/ SrvEmbedFile(r)
       \/ SrvFinish(r)
       \/ IdxReadDone(r)
       \/ IdxReadFail(r)
       \/ IdxFetchFail(r)
       \/ IdxTimer(r)
       \/ \E n \in 1..(MaxWire + 2) : IdxReadChunk(r, n)
  \/ \E p \in ProjIds :
       \/ ClickIndex(p)
       \/ CreateProject(p)
       \/ SelectProject(p)
  \/ \E sel \in ProjIds \cup {NoProj} :
       \/ LoadDone(sel)
       \/ LoadFail(sel)

SpecIndex == InitIndex /\ [][IndexNext]_vars

\* The chat page with the initial load done: project 1 is indexed and
\* selected, nothing is being indexed.
InitChat ==
  /\ ServerInit
  /\ projects = ListProjects
  /\ selectedProjectId = 1
  /\ loads = {}
  /\ TrainingIdle
  /\ ChatIdle
  /\ RerankIdle
  /\ ConversationsIdle
  /\ AgentIdle

ChatNext ==
  \/ SendMessage
  \/ CancelStream
  \/ \E q \in Asks :
       \/ SrvAskRecv(q)
       \/ SrvContent(q)
       \/ SrvDone(q)
       \/ SrvGenFail(q)
       \/ AskReadDone(q)
       \/ AskReadFail(q)
       \/ AskFetchFail(q)
       \/ AskHttpError(q)
       \/ \E n \in 1..(2 * (MaxDeltas + 2)) : AskReadChunk(q, n)

SpecChat == InitChat /\ [][ChatNext]_vars

\* The same, over a network that hands over whole lines: every chunk ends
\* with a line feed.
ChatLinesNext ==
  \/ SendMessage
  \/ CancelStream
  \/ \E q \in Asks :
       \/ SrvAskRecv(q)
       \/ SrvContent(q)
       \/ SrvDone(q)
       \/ SrvGenFail(q)
       \/ AskReadDone(q)
       \/ AskReadFail(q)
       \/ AskFetchFail(q)
       \/ AskHttpError(q)
       \/ \E k \in 1..(MaxDeltas + 2) : AskReadChunk(q, 2 * k)

SpecChatLines == InitChat /\ [][ChatLinesNext]_vars

\* The Reranker on its own: any batch the Retriever can hand over, and
\* the reranks of it.
CandidateBatches ==
  {c \in UNION {[1..n -> Candidate] : n \in 0..MaxCand} : RetrievalOrdered(c)}

InitRerank ==
  /\ ServerInit
  /\ projects = ListProjects
  /\ selectedProjectId = 1
  /\ loads = {}
  /\ TrainingIdle
  /\ ChatIdle
  /\ candidates \in CandidateBatches
  /\ reranked = <<>>
  /\ ConversationsIdle
  /\ AgentIdle

RerankNext == RerankBatch

SpecRerank == InitRerank /\ [][RerankNext]_vars

\* The event loop of the browser resumes a sendMessage whose awaited
\* reader.read() or fetch has settled.  Nothing obliges the server or the
\* network to send, to end or to break a stream.
ClientFair ==
  \A q \in Asks :
    /\ WF_vars(AskReadDone(q))
    /\ WF_vars(AskHttpError(q))
    /\ WF_vars(\E n \in 1..(2 * (MaxDeltas + 2)) : AskReadChunk(q, n))

SpecChatFair == SpecChat /\ ClientFair

\* The chat page and the training page side by side: project 1 is indexed
\* and selected, project 2 was created and never indexed.  One index
\* request and one question.
AskSpecIdxReqs == 1
AskSpecAsks == 1

InitAsk ==
  /\ srvProj = [p \in ProjIds |->
                  IF p = 1 THEN [exists |-> TRUE, status |-> "indexed",
                                 file_count |-> NFiles]
                  ELSE [exists |-> TRUE, status |-> "idle", file_count |-> 0]]
  /\ collection = [p \in ProjIds |-> IF p = 1 THEN InitialChunks ELSE {}]
  /\ projects = ListProjects
  /\ selectedProjectId = 1
  /\ loads = {}
  /\ TrainingIdle
  /\ ChatIdle
  /\ RerankIdle
  /\ ConversationsIdle
  /\ AgentIdle

AskNext ==
  \/ \E p \in ProjIds :
       \/ (nIx < AskSpecIdxReqs /\ ClickIndex(p))
       \/ SelectProject(p)
  \/ \E r \in IdxReqs :
       \/ SrvIndexRecv(r)
       \/ SrvInvalidDir(r)
       \/ SrvEmbedFile(r)
       \/ SrvFinish(r)
       \/ IdxReadDone(r)
       \/ IdxReadFail(r)
       \/ IdxFetchFail(r)
       \/ IdxTimer(r)
       \/ \E n \in 1..(MaxWire + 2) : IdxReadChunk(r, n)
  \/ \E sel \in ProjIds \cup {NoProj} :
       \/ LoadDone(sel)
       \/ LoadFail(sel)
  \/ (nAsk < AskSpecAsks /\ SendMessage)
  \/ CancelStream
  \/ \E q \in Asks :
       \/ SrvAskRecv(q)
       \/ SrvContent(q)
       \/ SrvDone(q)
       \/ SrvGenFail(q)
       \/ AskReadDone(q)
       \/ AskReadFail(q)
       \/ AskFetchFail(q)
       \/ AskHttpError(q)
       \/ \E n \in 1..(2 * (MaxDeltas + 2)) : AskReadChunk(q, n)

SpecAsk == InitAsk /\ [][AskNext]_vars

\* The training page with two projects: index, re-index and retry beside
\* the delete button.  Each read takes all that is in flight.
DelReqs == (ProjIds \X (ProjIds \cup {NoProj}))

DeleteNext ==
  \/ \E r \in IdxReqs :
       \/ SrvIndexRecv(r)
       \/ SrvInvalidDir(r)
       \/ SrvEmbedFile(r)
       \/ SrvFinish(r)
       \/ IdxReadDone(r)
       \/ IdxReadFail(r)
       \/ IdxFetchFail(r)
       \/ IdxTimer(r)
       \/ IdxReadChunk(r, Len(ix[r].wire))
  \/ \E p \in ProjIds :
       \/ ClickIndex(p)
       \/ DeleteProject(p)
  \/ \E d \in DelReqs :
       \/ DelDone(d)
       \/ DelFail(d)
  \/ \E sel \in ProjIds \cup {NoProj} :
       \/ LoadDone(sel)
       \/ LoadFail(sel)

SpecDelete == InitAsk /\ [][DeleteNext]_vars

(***************************************************************************)
(* Properties of the indexing side (SpecIndex).                            *)
(***************************************************************************)

\* C1: at most one indexing job of a project runs at any moment; an index
\* request that arrives while a job of its project runs is rejected, so two
\* jobs never write to one collection in an interleaved way.
C1_OneActiveJobPerProject ==
  \A r1, r2 \in IdxReqs :
    (r1 # r2 /\ ix[r1].srv = "run" /\ ix[r2].srv = "run")
      => ix[r1].proj # ix[r2].proj

\* Two index requests of one project are in flight; one job runs, the
\* other request was rejected.
C1_SecondRequestRejected ==
  \E r1, r2 \in IdxReqs :
    /\ r1 # r2
    /\ ix[r1].proj = ix[r2].proj
    /\ ix[r1].srv = "run"
    /\ ix[r2].srv = "rejected"
    /\ ix[r2].cpc = "open"

\* C2 (as claimed): the status shown for a project changes only along
\* idle->indexing, indexing->indexed, indexing->error, indexed->indexing and
\* error->indexing.
StatusEdges ==
  {<<"idle", "indexing">>, <<"indexing", "indexed">>, <<"indexing", "error">>,
   <<"indexed", "indexing">>, <<"error", "indexing">>}

C2_StatusFollowsStateMachine ==
  [][\A p \in ProjIds :
       (projects[p].inList /\ projects'[p].inList
          /\ projects[p].status # projects'[p].status)
         => <<projects[p].status, projects'[p].status>> \in StatusEdges]_vars

\* C3: the collection of a project never mixes chunks of two index runs, it
\* holds no chunk of a run that is still scanning, and an indexed project's
\* collection is the whole set its last run reported.
C3_NoPartialCollection ==
  \A p \in ProjIds :
    /\ \A c1, c2 \in collection[p] : c1[2] = c2[2]
    /\ \A r \in IdxReqs :
         (ix[r].srv = "run" /\ ix[r].proj = p)
           => \A c \in collection[p] : c[2] # r
    /\ (srvProj[p].exists /\ srvProj[p].status = "indexed")
         => Cardinality(collection[p]) = srvProj[p].file_count

\* A re-index of project 1 has embedded files, and the store still holds
\* the previous chunk set.
C3_OldSetDuringReindex ==
  \E r \in IdxReqs :
    /\ ix[r].srv = "run"
    /\ ix[r].proj = 1
    /\ ix[r].acc # {}
    /\ collection[1] = InitialChunks

\* C4 (as claimed): a question on the selected project can be sent while
\* that project, indexed before, is being re-indexed.
C4_AskWhileReindexing ==
  \A p \in ProjIds :
    ( /\ selectedProjectId = p
      /\ projects[p].inList
      /\ projects[p].status = "indexing"
      /\ srvProj[p].status = "indexing"
      /\ collection[p] # {} )
      => CanSend

\* C5: a job that embedded no file ends with an error event, never with a
\* complete event; its client never sets the project to indexed; and the
\* registry holds no indexed project with an empty collection.
HasEvent(wire, t) ==
  \E i \in 1..Len(wire) : wire[i].e.type = t

C5_ZeroFilesIsError ==
  /\ \A r \in IdxReqs :
       (ix[r].srv = "done" /\ ix[r].acc = {})
         => /\ ix[r].term = "error"
            /\ ~HasEvent(ix[r].wire, "complete")
            /\ ix[r].lastSet # "indexed"
  /\ \A p \in ProjIds :
       (srvProj[p].exists /\ srvProj[p].status = "indexed")
         => collection[p] # {}

\* A full scan embedded nothing, and the client has taken the error event:
\* the project is shown as failed.
C5_ZeroFilesSeenByClient ==
  \E r \in IdxReqs :
    /\ ix[r].srv = "done"
    /\ ix[r].cur = NFiles
    /\ ix[r].acc = {}
    /\ ix[r].conn
    /\ ix[r].lastSet = "error"
    /\ projects[ix[r].proj].status = "error"
    /\ srvProj[ix[r].proj].status = "error"

\* C6: a job that embedded at least one file scans every file, ends with a
\* complete event, and the file_count its client stores is the number of
\* embedded files; only a job without any embedded file ends in error.
C6_PartialFailureCompletes ==
  \A r \in IdxReqs :
    /\ (ix[r].srv = "done" /\ ix[r].acc # {})
         => /\ ix[r].term = "complete"
            /\ ix[r].cur = NFiles
            /\ ~HasEvent(ix[r].wire, "error")
            /\ (ix[r].lastSet = "indexed"
                  => ix[r].fcSet = Cardinality(ix[r].acc))
    /\ (ix[r].srv = "done" /\ ix[r].term = "error") => ix[r].acc = {}

\* One file failed, one was embedded, and the client shows file_count 1.
C6_OneOfTwoFilesIndexed ==
  \E r \in IdxReqs :
    /\ ix[r].srv = "done"
    /\ ix[r].cur = NFiles
    /\ Cardinality(ix[r].acc) = 1
    /\ ix[r].lastSet = "indexed"
    /\ projects[ix[r].proj].status = "indexed"
    /\ projects[ix[r].proj].file_count = 1

\* C14 (as claimed): a project shown as indexing has a job that runs, an
\* index request whose stream or timer is pending, or a refresh of the list
\* under way: once the event stream of its job has ended it reaches indexed
\* or error.
C14_IndexingAlwaysEnds ==
  \A p \in ProjIds :
    (projects[p].inList /\ projects[p].status = "indexing")
      => \/ \E r \in IdxReqs :
              ix[r].proj = p /\ (ix[r].cpc \in {"open", "timer"}
                                   \/ ix[r].srv = "run")
         \/ loads # {}

\* C16: the progress events of one job carry current = 1, 2, ... in the
\* order of emission, one for every file processed, embedded or failed:
\* current strictly increases and never exceeds the total.
IsProgress(e) == e.type = "indexing"

ProgressEvents(r) == SelectSeq(ix[r].log, IsProgress)

C16_ProgressStrictlyIncreasing ==
  \A r \in IdxReqs :
    /\ Len(ProgressEvents(r)) = ix[r].cur
    /\ \A i \in 1..Len(ProgressEvents(r)) :
         /\ ProgressEvents(r)[i].data >= 1
         /\ ProgressEvents(r)[i].data <= NFiles
         /\ \A j \in 1..Len(ProgressEvents(r)) :
              (i < j) => ProgressEvents(r)[i].data < ProgressEvents(r)[j].data

\* A scan with a failed file and an embedded file has emitted a progress
\* event for each.
C16_ProgressForFailedFile ==
  \E r \in IdxReqs :
    /\ ix[r].cur = NFiles
    /\ Cardinality(ix[r].acc) < NFiles
    /\ ix[r].acc # {}
    /\ Len(ProgressEvents(r)) = NFiles

C18_JobsIndependent ==
  \A r \in IdxReqs :
    (ix[r].cpc = "open")
      => /\ indexingProjectId = ix[r].proj
         /\ \/ indexProgress = Ev("scan_start", 0)
            \/ \E i \in 1..Len(ix[r].log) : ix[r].log[i] = indexProgress

(***************************************************************************)
(* Properties of the answer stream (SpecChat).                             *)
(***************************************************************************)

\* C7: the events of one answer stream are: sources first and once, then
\* content events, then done, once and last; a stream that was not
\* finished holds no done.
WellOrdered(log) ==
  \A i \in 1..Len(log) :
    /\ (i = 1) => log[i] = "sources"
    /\ (i > 1) => log[i] \in {"content", "done"}
    /\ (log[i] = "done") => i = Len(log)

C7_EventOrder ==
  \A q \in Asks :
    /\ WellOrdered(ask[q].log)
    /\ (ask[q].srv = "done")
         => (Len(ask[q].log) >= 2 /\ ask[q].log[Len(ask[q].log)] = "done")
    /\ (ask[q].srv \in {"gen", "failed"})
         => \A i \in 1..Len(ask[q].log) : ask[q].log[i] # "done"

\* A finished stream with every content delta.
C7_FullStream ==
  \E q \in Asks :
    /\ ask[q].srv = "done"
    /\ Len(ask[q].log) = MaxDeltas + 2
    /\ ask[q].log[2] = "content"

\* C8 (as claimed): when the generation fails after k content frames, the
\* caller still holds those k frames, and no done was emitted or acted upon.
C8_PartialContentRetained ==
  \A q \in Asks :
    ( /\ ask[q].srv = "failed"
      /\ ask[q].pc = "end"
      /\ aborted = {}
      /\ chatError = "none" )
      => /\ \A i \in 1..Len(ask[q].log) : ask[q].log[i] # "done"
         /\ ask[q].completions = <<>>
         /\ \/ ask[q].content = <<>>
            \/ streamingContent = ask[q].content

\* C9 (as claimed): whatever the split of the stream into chunks, the
\* content handed to onComplete is the concatenation of the deltas sent.
DeltasSent(q) == [j \in 1..ask[q].sent |-> DeltaOf(q, j)]

C9_AnswerIsAllDeltas ==
  \A q \in Asks :
    \A i \in 1..Len(ask[q].completions) :
      ask[q].completions[i].content = DeltasSent(q)

\* C10 (as claimed): once the controller of a request is aborted, nothing
\* that arrives changes its answer, and its onComplete is not called.
C10_NothingConsumedAfterCancel ==
  [][\A q \in Asks :
       (q \in aborted /\ ask[q].pc = "open")
         => /\ ask'[q].content = ask[q].content
            /\ ask'[q].sources = ask[q].sources
            /\ ask'[q].completions = ask[q].completions]_vars

\* C11 (as claimed): after cancelStream the request of the aborted controller
\* ends (the read loop exits, the finally block runs) by the client's own
\* steps, whether or not the server sends more data or ends the stream.
C11_CancelEndsRequest ==
  \A q \in Asks :
    (q \in aborted /\ abortCur = q /\ ask[q].pc = "open")
      ~> (ask[q].pc = "end")

(***************************************************************************)
(* Properties of questions against projects without an index (SpecAsk).    *)
(***************************************************************************)

\* C12: no ask request is ever issued for a project that is idle or was
\* never indexed (its collection is missing); were one to arrive, it is
\* answered with ProjectNotIndexed and without any embedding call.
C12_NoAskWithoutIndex ==
  \A q \in Asks :
    /\ (ask[q].pc # "unused")
         => /\ HasCollection(ask[q].proj)
            /\ srvProj[ask[q].proj].status # "idle"
            /\ ask[q].err # "ProjectNotIndexed"
    /\ (ask[q].err = "ProjectNotIndexed") => ask[q].embeds = 0

\* Project 2 is listed as idle and has no collection, its index job is
\* about to start; the question in flight went to project 1.
C12_IdleProjectNotAsked ==
  /\ projects[2].inList
  /\ projects[2].status = "idle"
  /\ srvProj[2].status = "idle"
  /\ ~HasCollection(2)
  /\ selectedProjectId = 1
  /\ \E q \in Asks : ask[q].pc = "open" /\ ask[q].proj = 1
                       /\ ask[q].embeds = 1

(***************************************************************************)
(* Properties of project deletion (SpecDelete).                            *)
(***************************************************************************)

\* C13: a project and its collection are never removed while an indexing
\* job of that project runs: a delete request that arrives meanwhile waits
\* for the job, whatever other jobs and delete requests are under way.
C13_NoRemovalWhileIndexing ==
  [][\A p \in ProjIds :
       ( /\ srvProj[p].exists
         /\ \/ ~srvProj'[p].exists
            \/ (collection[p] # {} /\ collection'[p] = {}) )
         => \A r \in IdxReqs : ~(ix[r].proj = p /\ ix[r].srv = "run")]_vars

\* The client has sent a delete request for a project whose indexing job
\* is running and whose event stream it is still reading; the indexing
\* marker is no longer that project.
C13_DeleteAwaitsJob ==
  \E d \in dels : \E r \in IdxReqs :
    /\ ix[r].proj = d[1]
    /\ ix[r].srv = "run"
    /\ ix[r].cur > 0
    /\ ix[r].cpc = "open"
    /\ indexingProjectId # d[1]

(***************************************************************************)
(* Properties of failed attempts (SpecAsk).                                *)
(***************************************************************************)

\* C15: a fatal error ends the event stream of its attempt.  An error
\* event is the last event of an indexing job, nothing is emitted after it,
\* and the invocation that set its project to error never sets it to
\* indexed afterwards; an answer stream whose generation failed emits
\* nothing more, in particular no done.
ErrorIsLast(log) ==
  \A i \in 1..Len(log) : (log[i].type = "error") => i = Len(log)

C15_NothingAfterFatalError ==
  [][/\ \A r \in IdxReqs :
          /\ ErrorIsLast(ix'[r].log)
          /\ (ix[r].term = "error")
               => (ix'[r].log = ix[r].log \/ ix'[r] = IxSettled)
          /\ (ix[r].lastSet = "error") => ix'[r].lastSet # "indexed"
     /\ \A q \in Asks :
          (ask[q].srv = "failed") => ask'[q].log = ask[q].log]_vars

\* An indexing job has failed, its stream has ended, and its client has
\* taken the error event and reached the end of the stream.
C15_ErrorEventConsumed ==
  \E r \in IdxReqs :
    /\ ix[r].term = "error"
    /\ ix[r].closed
    /\ ix[r].wire = <<>>
    /\ ix[r].lastSet = "error"
    /\ ix[r].cpc = "timer"
    /\ projects[ix[r].proj].status = "error"

(***************************************************************************)
(* Properties of overlapping questions (SpecChatLines).                    *)
(***************************************************************************)

InitConv ==
  /\ srvProj = [p \in ProjIds |->
                  [exists |-> TRUE, status |-> "indexed",
                   file_count |-> NFiles]]
  /\ collection = [p \in ProjIds |-> InitialChunks]
  /\ projects = ListProjects
  /\ selectedProjectId = 1
  /\ loads = {}
  /\ TrainingIdle
  /\ ChatIdle
  /\ RerankIdle
  /\ ConversationsIdle
  /\ AgentIdle

ConvSpecAsks == 1

ConvNext ==
  \/ (nAsk < ConvSpecAsks /\ HandleSend)
  \/ NewConversation
  \/ Tick
  \/ CancelStream
  \/ \E i \in 1..MaxConv :
       \/ SelectConversation(i)
       \/ DeleteConversation(i)
  \/ \E p \in ProjIds : SelectProject(p)
  \/ \E q \in Asks :
       \/ SrvAskRecv(q)
       \/ SrvContent(q)
       \/ SrvDone(q)
       \/ SrvGenFail(q)
       \/ AskReadDone(q)
       \/ AskReadFail(q)
       \/ AskFetchFail(q)
       \/ AskHttpError(q)
       \/ AskReadChunk(q, Len(ask[q].wire))

SpecConv == InitConv /\ [][ConvNext]_vars

\* The places of the answers to question q, and of the question itself, in
\* a list of messages.
AnswersAt(msgs, q) ==
  {k \in DOMAIN msgs : msgs[k].role = "assistant" /\ msgs[k].ask = q}
QuestionAt(msgs, q) == {k \in DOMAIN msgs : msgs[k] = UserMessage(q)}

\* C21: the answer to a question sent from the chat page is appended to the
\* conversation, of the project, that received the user's question, after
\* that question, whichever project and conversation are on display when
\* the stream completes: a conversation that holds the question of request
\* q holds, after it, one answer for each result request q handed to
\* onComplete, with that result's content, and no answer to q is in a
\* project other than the one q was sent for.
C21_AnswerJoinsItsQuestion ==
  \A q \in Asks : \A p \in ProjIds :
    \A i \in DOMAIN conversationsByProject[p] :
      LET msgs == conversationsByProject[p][i].messages
      IN /\ AnswersAt(msgs, q) # {} => p = ask[q].proj
         /\ QuestionAt(msgs, q) # {} =>
              /\ p = ask[q].proj
              /\ Cardinality(AnswersAt(msgs, q)) = Len(ask[q].completions)
              /\ \A k \in AnswersAt(msgs, q) :
                   /\ \A j \in QuestionAt(msgs, q) : j < k
                   /\ \E n \in DOMAIN ask[q].completions :
                        msgs[k] = AssistantMessage(q, ask[q].completions[n])

\* The answer has arrived in the conversation that the send itself created
\* in project 1, while project 2 is on display.
C21_AnswerAfterProjectSwitch ==
  /\ ask[1].pc # "unused"
  /\ onComplete[1].cur = NoConv
  /\ selectedProjectId # ask[1].proj
  /\ \E i \in DOMAIN conversationsByProject[ask[1].proj] :
       LET msgs == conversationsByProject[ask[1].proj][i].messages
       IN QuestionAt(msgs, 1) # {} /\ AnswersAt(msgs, 1) # {}

\* C22: a load or refresh of the project list (a step that takes a call
\* out of loads) selects a project only when none is selected: while a
\* project is selected, the answer of projectApi.list() leaves
\* selectedProjectId as it is.
C22_LoadKeepsSelection ==
  [][(loads' # loads /\ selectedProjectId # NoProj)
       => selectedProjectId' = selectedProjectId]_vars

(***************************************************************************)
(* The agent hook on its own.  A read may end anywhere in the stream.      *)
(***************************************************************************)
InitAgent == InitChat

AgentNext ==
  \/ RunAgent
  \/ CancelAgent
  \/ \E r \in Runs :
       \/ AgentSrvAccept(r)
       \/ \E d \in 1..MaxStepData : AgentSrvStep(r, d)
       \/ AgentSrvComplete(r)
       \/ AgentReadDone(r)
       \/ AgentReadFail(r)
       \/ AgentHttpError(r)
       \/ \E n \in 1..(2 * (MaxSteps + 1)) : AgentReadChunk(r, n)

SpecAgent == InitAgent /\ [][AgentNext]_vars

\* The steps among a sequence of events, in their order.
RECURSIVE StepsOf(_)
StepsOf(evs) ==
  IF evs = <<>> THEN <<>>
  ELSE (IF Head(evs).type = "step" THEN <<Head(evs).data>> ELSE <<>>)
         \o StepsOf(Tail(evs))

\* The events of run r that were sent and not yet dispatched.
Undispatched(r) == EventsOfLines(SplitLines(run[r].buffer \o run[r].wire))

\* C23: in agent mode, whatever the step events and however the stream is
\* cut into chunks, no step is lost or reordered: while the stream is
\* read, the steps collected so far followed by the steps still under way
\* are the steps the server sent; a run that read its stream to the end
\* collected exactly the steps sent, in the order sent, and handed the
\* final answer with exactly those steps to onComplete, once; with a
\* single run the steps on display are the steps collected.
C23_AgentStepsComplete ==
  /\ \A r \in Runs :
       /\ run[r].pc = "open" =>
            run[r].allSteps \o StepsOf(Undispatched(r)) = StepsOf(run[r].log)
       /\ run[r].exit = "eos" =>
            /\ run[r].allSteps = StepsOf(run[r].log)
            /\ run[r].completions =
                 <<[answer |-> r, steps |-> StepsOf(run[r].log)]>>
  /\ nRun = 1 => steps = run[1].allSteps

\* Both steps have been collected, and the last read ended inside the line
\* of the complete event.
C23_ReadEndedInsideLine ==
  /\ Len(run[1].allSteps) = MaxSteps
  /\ run[1].buffer = <<DataHead(Ev("complete", 1))>>

\* C24: a request that ends on an error response (not ok) or on a fetch
\* that failed records an error message (the server's detail or the HTTP
\* status for an error response), hands nothing to onComplete, adds no
\* message to any conversation and leaves isStreaming false.
C24_FailedRequestReportsError ==
  [][\A q \in Asks :
       (/\ ask[q].pc = "open"
        /\ ask[q].srv \in {"none", "rejected"}
        /\ ask'[q].pc = "end")
       => /\ chatError' = IF ask[q].srv = "rejected" THEN "http" ELSE "failed"
          /\ isStreaming' = FALSE
          /\ ask'[q].completions = <<>>
          /\ conversationsByProject' = conversationsByProject]_vars

\* The server refused the question: the error is on display and the
\* conversation holds the question alone.
C24_ErrorResponseSeen ==
  /\ ask[1].srv = "rejected"
  /\ ask[1].exit = "catch"
  /\ chatError = "http"
  /\ ~isStreaming
  /\ \E i \in DOMAIN conversationsByProject[1] :
       conversationsByProject[1][i].messages = <<UserMessage(1)>>

(***************************************************************************)
(* addMessage on its own: any stored conversations (distinct ids within a  *)
(* project, at most one message each), any selected project or none, any   *)
(* current conversation of it or none, any conversation id or none as the  *)
(* argument.  onComplete[1] holds the arguments of the call.               *)
(***************************************************************************)
MaxMsgs == 2      \* messages of one conversation

StoredConversations ==
  {[id |-> c, title |-> NewTitle, messages |-> <<>>] : c \in 1..MaxNow}
    \cup {[id |-> c, title |-> 1, messages |-> <<UserMessage(1)>>] :
            c \in 1..MaxNow}

ConversationLists ==
  {cs \in UNION {[1..n -> StoredConversations] : n \in 0..MaxConv} :
     \A i, j \in DOMAIN cs : i # j => cs[i].id # cs[j].id}

InitMessages ==
  /\ srvProj = [p \in ProjIds |->
                  [exists |-> TRUE, status |-> "indexed",
                   file_count |-> NFiles]]
  /\ collection = [p \in ProjIds |-> InitialChunks]
  /\ selectedProjectId \in ProjIds \cup {NoProj}
  /\ projects = IF selectedProjectId = NoProj
                  THEN [p \in ProjIds |-> NotListed] ELSE ListProjects
  /\ loads = IF selectedProjectId = NoProj THEN {NoProj} ELSE {}
  /\ TrainingIdle
  /\ ChatIdle
  /\ RerankIdle
  /\ AgentIdle
  /\ conversationsByProject \in [ProjIds -> ConversationLists]
  /\ currentConversationId \in
       {NoConv} \cup
         {c \in 1..MaxNow :
            \E i \in DOMAIN Conversations(conversationsByProject,
                                          selectedProjectId) :
              conversationsByProject[selectedProjectId][i].id = c}
  /\ now = 1
  /\ \E c \in {NoConv} \cup (1..MaxNow) :
       onComplete = [q \in Asks |->
                       IF q = 1 THEN [proj |-> selectedProjectId,
                                      cur |-> currentConversationId,
                                      convId |-> c]
                       ELSE NoCallback]

\* addMessage(message, conversationId), called in the render on display.
AddMessageCall(message) ==
  /\ \A p \in ProjIds : \A i \in DOMAIN conversationsByProject[p] :
       Len(conversationsByProject[p][i].messages) < MaxMsgs
  /\ conversationsByProject' =
       addMessage(conversationsByProject, selectedProjectId,
                  currentConversationId, message, onComplete[1].convId)
  /\ UNCHANGED <<currentConversationId, now, onComplete, agentVars, rrVars,
                 idxVars, chatVars>>

MessagesNext ==
  \E message \in {UserMessage(2),
                  AssistantMessage(1, [content |-> <<>>,
                                       sources |-> NoSources])} :
    AddMessageCall(message)

SpecMessages == InitMessages /\ [][MessagesNext]_vars

\* C25: addMessage appends the message at the end of the target
\* conversation (the one named by the argument, else the current one) of
\* the selected project; every other conversation of that project and the
\* conversations of every other project stay as they are; with no project
\* selected, with no target, or with a target id that no conversation has,
\* the stored conversations stay as they are.
C25_AddMessageFrame ==
  [][LET sel == selectedProjectId
         target == IF onComplete[1].convId # NoConv
                     THEN onComplete[1].convId ELSE currentConversationId
         old == conversationsByProject
         new == conversationsByProject'
     IN /\ \A p \in ProjIds \ {sel} : new[p] = old[p]
        /\ sel # NoProj =>
             /\ DOMAIN new[sel] = DOMAIN old[sel]
             /\ \A i \in DOMAIN old[sel] :
                  IF target # NoConv /\ old[sel][i].id = target
                    THEN /\ new[sel][i].id = old[sel][i].id
                         /\ new[sel][i].title = old[sel][i].title
                         /\ Len(new[sel][i].messages) =
                              Len(old[sel][i].messages) + 1
                         /\ SubSeq(new[sel][i].messages, 1,
                                   Len(old[sel][i].messages)) =
                              old[sel][i].messages
                    ELSE new[sel][i] = old[sel][i]
        /\ (\/ sel = NoProj
            \/ target = NoConv
            \/ \A i \in DOMAIN old[sel] : old[sel][i].id # target)
             => new = old]_vars

\* A message was appended to the conversation named by the argument, which
\* is not the current one, beside another conversation of the project and
\* the conversations of the other project.
C25_AppendedToNamedConversation ==
  /\ selectedProjectId = 1
  /\ conversationsByProject[2] # <<>>
  /\ onComplete[1].convId \notin {NoConv, currentConversationId}
  /\ currentConversationId # NoConv
  /\ \E i, j \in DOMAIN conversationsByProject[1] :
       /\ i # j
       /\ conversationsByProject[1][i].id = onComplete[1].convId
       /\ Len(conversationsByProject[1][i].messages) = MaxMsgs
       /\ Len(conversationsByProject[1][j].messages) = 1

(***************************************************************************)
(* Two questions in one conversation of the chat page: the first send     *)
(* creates it.  The network hands over whole lines.                        *)
(***************************************************************************)
SendNext ==
  \/ HandleSend
  \/ CancelStream
  \/ \E q \in Asks :
       \/ SrvAskRecv(q)
       \/ SrvContent(q)
       \/ SrvDone(q)
       \/ SrvGenFail(q)
       \/ AskReadDone(q)
       \/ AskReadFail(q)
       \/ AskFetchFail(q)
       \/ AskHttpError(q)
       \/ \E k \in 1..(MaxDeltas + 2) : AskReadChunk(q, 2 * k)

SpecSend == InitConv /\ [][SendNext]_vars

\* The number of answers to question q in the stored conversations.
AnswersStored(store, q) ==
  Cardinality({t \in ProjIds \X (1..MaxConv) \X (1..(2 * MaxAsk)) :
                 /\ t[2] \in DOMAIN store[t[1]]
                 /\ t[3] \in AnswersAt(store[t[1]][t[2]].messages, q)})

RECURSIVE DonesIn(_)
DonesIn(evs) ==
  IF evs = <<>> THEN 0
  ELSE (IF Head(evs).type = "done" THEN 1 ELSE 0) + DonesIn(Tail(evs))

\* C26: an assistant message is added only as the effect of a done event
\* received on the stream of its request, one message for each: in every
\* step the number of answers to question q in a conversation grows by the
\* number of done events that the step reads and dispatches on the stream
\* of request q if the conversation is the one of the question, and stays
\* as it is otherwise (so in every step that ends a request on the end of
\* the stream, on an error or on the abort check); a step that creates or
\* deletes a conversation adds no answer; and a request that ended without
\* the server ever sending done has no answer stored.
C26_AnswerOnlyOnDone ==
  [][\A q \in Asks :
       LET n == Len(ask[q].wire) - Len(ask'[q].wire)
           dones == IF ask[q].pc = "open" /\ ask'[q].pc = "open" /\ n > 0
                      THEN DonesIn(ParseChunk(Prefix(ask[q].wire, n)))
                      ELSE 0
           old == conversationsByProject
           new == conversationsByProject'
       IN /\ \A p \in ProjIds :
               IF Len(new[p]) = Len(old[p])
                 THEN \A i \in DOMAIN old[p] :
                        Cardinality(AnswersAt(new[p][i].messages, q)) =
                          Cardinality(AnswersAt(old[p][i].messages, q))
                            + (IF /\ p = onComplete[q].proj
                                  /\ old[p][i].id = onComplete[q].convId
                                 THEN dones ELSE 0)
                 ELSE AnswersStored(new, q) <= AnswersStored(old, q)
          /\ (/\ ask'[q].pc = "end"
              /\ \A k \in DOMAIN ask'[q].log : ask'[q].log[k] # "done")
               => AnswersStored(new, q) = 0]_vars

\* The first request ended at the end of a stream without done and left no
\* answer; the second received its done event and left one.
C26_OneAnswerOfTwoRequests ==
  /\ ask[1].exit = "eos"
  /\ \A k \in DOMAIN ask[1].log : ask[1].log[k] # "done"
  /\ AnswersStored(conversationsByProject, 1) = 0
  /\ Len(ask[2].completions) = 1
  /\ AnswersStored(conversationsByProject, 2) = 1

\* C27: isStreaming is true whenever at least one sendMessage request is
\* in flight (sent and not yet through its finally block), also when a
\* second question was sent before the first one finished.
C27_StreamingWhileInFlight ==
  (\E q \in Asks : ask[q].pc = "open") => isStreaming

\* C28: after cancelAgent the agent run is stopped, even if the server
\* keeps sending: for a cancelled run no further step is collected and
\* nothing more is handed to onComplete, and while it is the latest run
\* isRunning stays false.
C28_CancelledRunStops ==
  [][\A r \in agentAborted :
       /\ run'[r].allSteps = run[r].allSteps
       /\ run'[r].completions = run[r].completions
       /\ nRun' = r => isRunning' = FALSE]_vars

\* C29: currentConversationId is null or the id of a conversation that
\* exists in the selected project, after every handler: a change of the
\* selected project resets it, deleting the current conversation resets it
\* and creating a conversation sets it to the new id.
C29_CurrentConversationExists ==
  \/ currentConversationId = NoConv
  \/ \E i \in DOMAIN Conversations(conversationsByProject, selectedProjectId) :
       conversationsByProject[selectedProjectId][i].id = currentConversationId

\* After a switch to project 2 a conversation was created there and is the
\* current one, while project 1 holds a conversation of another id.
C29_CurrentAfterSwitch ==
  /\ selectedProjectId = 2
  /\ currentConversationId # NoConv
  /\ conversationsByProject[1] # <<>>
  /\ \A i \in DOMAIN conversationsByProject[1] :
       conversationsByProject[1][i].id # currentConversationId

\* C30: within one project every conversation has an id of its own, after
\* any sequence of createConversation, send and deleteConversation.
C30_DistinctConversationIds ==
  \A p \in ProjIds :
    \A i, j \in DOMAIN conversationsByProject[p] :
      i # j => conversationsByProject[p][i].id # conversationsByProject[p][j].id

=============================================================================
